---- MODULE Spec2Model ----
(***************************************************************************)
(* State machine of the tornado-svm program: the pool record               *)
(* (TornadoInstance), the Merkle tree account (MerkleTree), the lamport    *)
(* balances of the accounts an instruction names, and the three            *)
(* instructions Initialize, Deposit and Withdraw of processor.rs.          *)
(*                                                                         *)
(* 32-byte values are sequences of 32 bytes; index k of a sequence is byte *)
(* k-1 of the Rust array.  A u64 limb is the sequence of its 8 bytes, low  *)
(* byte first, so every width of the source is kept.                       *)
(*                                                                         *)
(* The host ledger is outside the repository.  It is modelled by what the  *)
(* program relies on: a native transfer moves lamports when the source     *)
(* holds them, account data is stored and loaded as the struct that was    *)
(* serialized, and an instruction that returns an error or panics leaves   *)
(* every account as it was before the instruction.                         *)
(***************************************************************************)
EXTENDS Integers, Sequences, FiniteSets, TLC

VARIABLES
  instance,         \* data of the tornado instance (pool) account
  merkle_tree,      \* data of the account at the pool's merkle_tree address
  lamports,         \* balance of each account
  overflow_checks,  \* build profile: TRUE when integer overflow panics
  last,             \* the instruction processed last, with its outcome
  produced_roots    \* history: the roots successful inserts stored, in order

vars ==
  <<instance, merkle_tree, lamports, overflow_checks, last, produced_roots>>

----------------------------------------------------------------------------
(* state.rs / merkle_tree.rs constants *)

ROOT_HISTORY_SIZE == 30

MIMC_ROUNDS == 20

FIELD_SIZE ==
  <<48, 100, 78, 114, 225, 49, 160, 41, 184, 93, 18, 102, 180, 27, 75, 48,
    115, 190, 84, 70, 195, 54, 177, 11, 81, 16, 90, 244, 0, 0, 0, 1 >>

ZERO_VALUE ==
  <<47, 229, 76, 96, 211, 172, 171, 243, 52, 58, 53, 182, 235, 161, 93, 180,
    130, 27, 52, 15, 118, 231, 65, 226, 36, 150, 133, 237, 72, 153, 175, 108 >>

ZERO_LEVEL_1 ==
  <<37, 106, 97, 53, 119, 126, 238, 47, 210, 111, 84, 184, 183, 3, 122, 37,
    67, 157, 82, 53, 202, 238, 34, 65, 84, 24, 109, 43, 138, 82, 227, 29 >>

ZERO_LEVEL_2 ==
  <<17, 81, 148, 152, 149, 232, 42, 177, 153, 36, 222, 146, 196, 10, 61, 111,
    123, 203, 96, 217, 43, 0, 80, 75, 129, 153, 97, 54, 131, 240, 194, 0 >>

ZERO_LEVEL_3 ==
  <<32, 18, 30, 232, 17, 72, 159, 248, 214, 31, 9, 251, 137, 227, 19, 241,
    73, 89, 160, 242, 139, 180, 40, 162, 13, 186, 107, 11, 6, 139, 59, 219 >>

\* each constant is four u64 limbs, a limb written as its 8 bytes, low byte first
MIMC_CONSTANTS ==
  <<
    << <<211,8,163,133,136,106,63,36>>,
       <<68,115,112,3,46,138,25,19>>,
       <<208,49,159,41,34,56,9,164>>,
       <<137,108,78,236,152,250,46,8>> >>,
    << <<119,19,208,56,230,33,40,69>>,
       <<108,12,233,52,207,102,84,190>>,
       <<221,80,124,201,183,41,172,192>>,
       <<23,9,71,181,181,213,132,63>> >>,
    << <<27,251,121,137,217,213,22,146>>,
       <<172,181,223,152,166,11,49,209>>,
       <<183,223,26,208,219,114,253,47>>,
       <<150,126,38,106,237,175,225,184>> >>,
    << <<153,127,44,241,69,144,124,186>>,
       <<247,108,145,179,71,153,161,36>>,
       <<22,252,142,133,226,242,1,8>>,
       <<105,78,87,113,216,32,105,99>> >>,
    << <<126,61,147,244,163,254,88,164>>,
       <<88,182,142,114,143,116,149,13>>,
       <<238,74,21,130,88,205,139,113>>,
       <<181,89,90,194,29,164,84,123>> >>,
    << <<19,96,242,42,57,213,48,156>>,
       <<240,133,96,40,35,176,209,197>>,
       <<239,56,219,184,24,121,65,202>>,
       <<14,24,58,96,176,220,121,142>> >>,
    << <<62,138,30,176,139,14,158,108>>,
       <<39,75,49,189,193,119,21,215>>,
       <<96,92,96,85,218,47,175,120>>,
       <<148,171,85,170,243,37,85,230>> >>,
    << <<85,85,170,170,148,171,85,170>>,
       <<170,85,170,85,170,85,170,85>>,
       <<85,85,170,170,148,171,85,170>>,
       <<170,85,170,85,170,85,170,85>> >>,
    << <<165,90,165,90,165,90,165,90>>,
       <<90,165,90,165,90,165,90,165>>,
       <<165,90,165,90,165,90,165,90>>,
       <<90,165,90,165,90,165,90,165>> >>,
    << <<170,170,170,170,170,170,170,170>>,
       <<170,170,170,170,170,170,170,170>>,
       <<170,170,170,170,170,170,170,170>>,
       <<170,170,170,170,170,170,170,170>> >>,
    << <<85,85,85,85,85,85,85,85>>,
       <<85,85,85,85,85,85,85,85>>,
       <<85,85,85,85,85,85,85,85>>,
       <<85,85,85,85,85,85,85,85>> >>,
    << <<170,170,170,170,170,170,170,170>>,
       <<85,85,85,85,85,85,85,85>>,
       <<170,170,170,170,170,170,170,170>>,
       <<85,85,85,85,85,85,85,85>> >>,
    << <<85,85,85,85,85,85,85,85>>,
       <<170,170,170,170,170,170,170,170>>,
       <<85,85,85,85,85,85,85,85>>,
       <<170,170,170,170,170,170,170,170>> >>,
    << <<17,17,17,17,17,17,17,17>>,
       <<34,34,34,34,34,34,34,34>>,
       <<51,51,51,51,51,51,51,51>>,
       <<68,68,68,68,68,68,68,68>> >>,
    << <<85,85,85,85,85,85,85,85>>,
       <<102,102,102,102,102,102,102,102>>,
       <<119,119,119,119,119,119,119,119>>,
       <<136,136,136,136,136,136,136,136>> >>,
    << <<153,153,153,153,153,153,153,153>>,
       <<170,170,170,170,170,170,170,170>>,
       <<187,187,187,187,187,187,187,187>>,
       <<204,204,204,204,204,204,204,204>> >>,
    << <<221,221,221,221,221,221,221,221>>,
       <<238,238,238,238,238,238,238,238>>,
       <<255,255,255,255,255,255,255,255>>,
       <<0,0,0,0,0,0,0,0>> >>,
    << <<239,205,171,144,120,86,52,18>>,
       <<33,67,101,135,9,186,220,254>>,
       <<239,205,171,144,120,86,52,18>>,
       <<33,67,101,135,9,186,220,254>> >>,
    << <<239,205,171,137,103,69,35,1>>,
       <<16,50,84,118,152,186,220,254>>,
       <<239,205,171,137,103,69,35,1>>,
       <<16,50,84,118,152,186,220,254>> >>,
    << <<0,0,0,0,0,0,0,0>>,
       <<0,0,0,0,0,0,0,0>>,
       <<0,0,0,0,0,0,0,0>>,
       <<0,0,0,0,0,0,0,0>> >>
  >>

----------------------------------------------------------------------------
(* merkle_tree.rs: field arithmetic and the MiMC compression function *)

NoErr == "None"

Bytes(n, b) == SubSeq([k \in 1..n |-> b], 1, n)

ZeroBytes32 == Bytes(32, 0)

ZeroLimb == Bytes(8, 0)

ZeroFe == <<ZeroLimb, ZeroLimb, ZeroLimb, ZeroLimb>>

\* is_within_field: walks from byte 31 down to byte 0; the first byte that
\* differs from FIELD_SIZE at the same index decides; equal arrays pass.
RECURSIVE within_field_from(_, _)
within_field_from(value, i) ==
  IF i < 0 THEN TRUE
  ELSE IF value[i + 1] < FIELD_SIZE[i + 1] THEN TRUE
  ELSE IF value[i + 1] > FIELD_SIZE[i + 1] THEN FALSE
  ELSE within_field_from(value, i - 1)

is_within_field(value) == within_field_from(value, 31)

\* bytes_to_field_element: limb i collects bytes 8i .. 8i+7, low byte first.
bytes_to_field_element(bytes) ==
  IF ~is_within_field(bytes)
  THEN [err |-> "InvalidMerkleTreeState", val |-> ZeroFe]
  ELSE [err |-> NoErr,
        val |-> <<SubSeq(bytes, 1, 8), SubSeq(bytes, 9, 16),
                  SubSeq(bytes, 17, 24), SubSeq(bytes, 25, 32)>>]

\* field_element_to_bytes: byte 8i+j is bits 8j..8j+7 of limb i.
field_element_to_bytes(fe) == fe[1] \o fe[2] \o fe[3] \o fe[4]

\* mod_field_size: one pass from byte 31 down to byte 0.
RECURSIVE mod_field_size_from(_, _, _)
mod_field_size_from(value, i, carry) ==
  IF i < 0 THEN <<>>
  ELSE LET d0    == value[i + 1] + (IF carry > 0 THEN carry * 256 ELSE 0)
           ge    == d0 >= FIELD_SIZE[i + 1]
           diff  == IF ge THEN d0 - FIELD_SIZE[i + 1] ELSE d0
       IN  IF ge
           THEN mod_field_size_from(value, i - 1, 1) \o <<diff % 256>>
           ELSE mod_field_size_from(value, i - 1, 0) \o <<diff % 256>>

mod_field_size(value) == mod_field_size_from(value, 31, 0)

\* field_mod: unwrap_or([0u64; 4]) when the reduced bytes are still outside.
field_mod(a) ==
  LET r == bytes_to_field_element(mod_field_size(field_element_to_bytes(a)))
  IN  IF r.err = NoErr THEN r.val ELSE ZeroFe

\* u64::overflowing_add on limbs: the 8-byte sum and the carry out of bit 63.
RECURSIVE add_limb_bytes(_, _, _, _)
add_limb_bytes(x, y, j, c) ==
  IF j > 8 THEN <<c>>
  ELSE LET s == x[j] + y[j] + c
       IN  IF s >= 256
           THEN <<s - 256>> \o add_limb_bytes(x, y, j + 1, 1)
           ELSE <<s>> \o add_limb_bytes(x, y, j + 1, 0)

overflowing_add(x, y) ==
  LET r == add_limb_bytes(x, y, 1, 0)
  IN  [sum |-> SubSeq(r, 1, 8), carry |-> r[9] = 1]

u64_limb(n) == <<n>> \o Bytes(7, 0)

RECURSIVE field_add_from(_, _, _, _)
field_add_from(a, b, i, carry) ==
  IF i > 4 THEN <<carry>>
  ELSE LET s1 == overflowing_add(a[i], b[i])
           s2 == overflowing_add(s1.sum, u64_limb(carry))
       IN  IF s1.carry \/ s2.carry
           THEN <<s2.sum>> \o field_add_from(a, b, i + 1, 1)
           ELSE <<s2.sum>> \o field_add_from(a, b, i + 1, 0)

field_add(a, b) ==
  LET r      == field_add_from(a, b, 1, 0)
      result == SubSeq(r, 1, 4)
      carry  == r[5]
  IN  IF carry > 0 \/ ~is_within_field(field_element_to_bytes(result))
      THEN field_mod(result)
      ELSE result

\* field_mul: schoolbook product into 64 bytes, row by row; the carry that
\* leaves a row is dropped; the low 32 bytes are kept.
RECURSIVE field_mul_row(_, _, _, _, _, _)
field_mul_row(a_bytes, b_bytes, result, i, j, carry) ==
  IF j > 31 THEN result
  ELSE LET idx  == i + j
           prod == a_bytes[i + 1] * b_bytes[j + 1] + result[idx + 1] + carry
           next == [result EXCEPT ![idx + 1] = prod % 256]
       IN  IF next[idx + 1] = prod % 256
           THEN field_mul_row(a_bytes, b_bytes, next, i, j + 1, prod \div 256)
           ELSE next

RECURSIVE field_mul_rows(_, _, _, _)
field_mul_rows(a_bytes, b_bytes, result, i) ==
  IF i > 31 THEN result
  ELSE LET next == field_mul_row(a_bytes, b_bytes, result, i, 0, 0)
       IN  IF Len(next) = 64
           THEN field_mul_rows(a_bytes, b_bytes, next, i + 1)
           ELSE next

field_mul(a, b) ==
  LET a_bytes == field_element_to_bytes(a)
      b_bytes == field_element_to_bytes(b)
      result  == field_mul_rows(a_bytes, b_bytes, Bytes(64, 0), 0)
      low     == SubSeq(result, 1, 32)
      reduced == IF ~is_within_field(low) THEN mod_field_size(low) ELSE low
  IN  bytes_to_field_element(reduced)

\* a * a_squared, once a_squared is there (the ? after the first field_mul)
field_cube_of(a, a_squared) ==
  IF a_squared.err # NoErr THEN a_squared ELSE field_mul(a, a_squared.val)

field_cube(a) == field_cube_of(a, field_mul(a, a))

\* the rounds i .. MIMC_ROUNDS of mimc_hash; cubed is round i - 1's result
RECURSIVE mimc_rounds_after(_, _)
mimc_rounds_after(cubed, i) ==
  IF cubed.err # NoErr THEN cubed
  ELSE IF i > MIMC_ROUNDS THEN cubed
  ELSE mimc_rounds_after(field_cube(field_add(cubed.val, MIMC_CONSTANTS[i])),
                         i + 1)

mimc_rounds(state, i) == mimc_rounds_after([err |-> NoErr, val |-> state], i)

\* the final addition of the key
mimc_hash_of(r, right) ==
  IF r.err # NoErr THEN r
  ELSE [err |-> NoErr, val |-> field_add(r.val, right)]

mimc_hash(left, right) ==
  mimc_hash_of(mimc_rounds(field_add(left, right), 1), right)

\* the field element of the hash, back as bytes
hash_result(result) ==
  IF result.err # NoErr
  THEN [err |-> result.err, val |-> ZeroBytes32]
  ELSE [err |-> NoErr, val |-> field_element_to_bytes(result.val)]

hash_left_right(left, right) ==
  IF ~is_within_field(left) \/ ~is_within_field(right)
  THEN [err |-> "InvalidMerkleTreeState", val |-> ZeroBytes32]
  ELSE hash_result(mimc_hash(bytes_to_field_element(left).val,
                             bytes_to_field_element(right).val))

get_zero_value(level) ==
  CASE level = 0 -> ZERO_VALUE
    [] level = 1 -> ZERO_LEVEL_1
    [] level = 2 -> ZERO_LEVEL_2
    [] level = 3 -> ZERO_LEVEL_3
    [] OTHER     -> ZERO_VALUE

\* 2u32.pow(height) overflows u32 for height >= 32: a build with overflow
\* checks panics there, a build without them wraps to 0.  The comparison
\* next_index >= 2^height is evaluated without forming 2^31.
RECURSIVE pow2(_)
pow2(n) == IF n = 0 THEN 1 ELSE 2 * pow2(n - 1)

pow_overflows(height) == height >= 32

tree_is_full(next_index, height) ==
  IF height <= 30 THEN next_index >= pow2(height)
  ELSE IF height = 31 THEN (next_index \div 2) >= pow2(30)
  ELSE next_index >= 0

\* what one pass of insert_leaf's loop leaves: the parent hash, or the error
\* of hash_left_right with the level hash as it was.  read lists the loads
\* of filled_subtrees made so far, each with its level and the value loaded.
insert_leaf_level_of(hashed, current_level_hash, filled_subtrees, read) ==
  IF hashed.err # NoErr
  THEN [err |-> hashed.err, hash |-> current_level_hash,
        filled_subtrees |-> filled_subtrees, read |-> read]
  ELSE [err |-> NoErr, hash |-> hashed.val,
        filled_subtrees |-> filled_subtrees, read |-> read]

\* a loop body that loads filled_subtrees[i] at every level
leaf_always_on_the_right(current_idx) == TRUE

\* the branch of the loop body that loads filled_subtrees[i]
leaf_is_on_the_right(current_idx) == current_idx % 2 # 0

\* one pass of insert_leaf's loop body, at level i
insert_leaf_level(i, current_idx, current_level_hash, filled_subtrees, read) ==
  IF ~leaf_is_on_the_right(current_idx)
  THEN insert_leaf_level_of(
         hash_left_right(current_level_hash, get_zero_value(i)),
         current_level_hash,
         [filled_subtrees EXCEPT ![i + 1] = current_level_hash], read)
  ELSE insert_leaf_level_of(
         hash_left_right(filled_subtrees[i + 1], current_level_hash),
         current_level_hash, filled_subtrees,
         Append(read, [level |-> i, left |-> filled_subtrees[i + 1]]))

\* the loop of insert_leaf from level i on; walk is what the levels below
\* left.  filled_subtrees[i] panics when the vector is shorter than height.
RECURSIVE insert_leaf_levels(_, _, _, _)
insert_leaf_levels(walk, i, height, current_idx) ==
  IF walk.err # NoErr THEN walk
  ELSE IF i >= height THEN walk
  ELSE IF i + 1 > Len(walk.filled_subtrees)
  THEN [walk EXCEPT !.err = "Panic"]
  ELSE insert_leaf_levels(
         insert_leaf_level(i, current_idx, walk.hash, walk.filled_subtrees,
                           walk.read),
         i + 1, height, current_idx \div 2)

\* the end of insert_leaf: the root enters the ring
insert_leaf_of(walk, next_index, roots, current_root_index) ==
  IF walk.err # NoErr
  THEN [err |-> walk.err, index |-> next_index,
        filled_subtrees |-> walk.filled_subtrees, roots |-> roots,
        current_root_index |-> current_root_index, read |-> walk.read]
  ELSE [err |-> NoErr, index |-> next_index,
        filled_subtrees |-> walk.filled_subtrees, read |-> walk.read,
        roots |-> [roots EXCEPT
                     ![((current_root_index + 1) % ROOT_HISTORY_SIZE) + 1] =
                       walk.hash],
        current_root_index |-> (current_root_index + 1) % ROOT_HISTORY_SIZE]

insert_leaf(leaf, current_index, next_index, height, filled_subtrees, roots, current_root_index, checks) ==
  IF pow_overflows(height) /\ checks
  THEN [err |-> "Panic", index |-> next_index,
        filled_subtrees |-> filled_subtrees, roots |-> roots,
        current_root_index |-> current_root_index, read |-> <<>>]
  ELSE IF tree_is_full(next_index, height)
  THEN [err |-> "MerkleTreeFull", index |-> next_index,
        filled_subtrees |-> filled_subtrees, roots |-> roots,
        current_root_index |-> current_root_index, read |-> <<>>]
  ELSE insert_leaf_of(
         insert_leaf_levels([err |-> NoErr, hash |-> leaf,
                             filled_subtrees |-> filled_subtrees,
                             read |-> <<>>],
                            0, height, next_index),
         next_index, roots, current_root_index)

\* a search that looks at the latest root only
is_known_root_latest_only(root, roots, current_root_index, i) ==
  root = roots[i + 1]

\* a search that takes the all-zero root like any other
is_known_root_unguarded(root, roots, current_root_index) ==
  \E k \in 1..ROOT_HISTORY_SIZE : roots[k] = root

RECURSIVE is_known_root_from(_, _, _, _)
is_known_root_from(root, roots, current_root_index, i) ==
  IF root = roots[i + 1] THEN TRUE
  ELSE LET next == IF i = 0 THEN ROOT_HISTORY_SIZE - 1 ELSE i - 1
       IN  IF next = current_root_index THEN FALSE
           ELSE is_known_root_from(root, roots, current_root_index, next)

is_known_root(root, roots, current_root_index) ==
  IF \A k \in 1..32 : root[k] = 0 THEN FALSE
  ELSE is_known_root_from(root, roots, current_root_index, current_root_index)

get_last_root(roots, current_root_index) == roots[current_root_index + 1]

----------------------------------------------------------------------------
(* error.rs *)

\* the variants of TornadoError, in the order of the enum
TornadoError ==
  << "InvalidInstructionData", "InvalidAccountData", "AccountNotInitialized",
     "AccountAlreadyInitialized", "InvalidMerkleTreeState", "MerkleTreeFull",
     "InvalidCommitment", "CommitmentAlreadyExists", "InvalidNullifierHash",
     "NullifierAlreadySpent", "InvalidMerkleRoot", "InvalidProof",
     "InvalidFee", "InvalidRecipient", "InvalidRelayer", "InvalidAmount",
     "InsufficientFunds" >>

\* ProgramError::Custom(e as u32): the discriminant of the variant
custom_code(e) ==
  (CHOOSE k \in 1..Len(TornadoError) : TornadoError[k] = e) - 1

----------------------------------------------------------------------------
(* utils.rs *)

\* a search that stops one short of the end of the list
commitment_exists_but_last(commitments, commitment) ==
  \E k \in 1..(Len(commitments) - 1) : commitments[k] = commitment

commitment_exists(commitments, commitment) ==
  \E k \in 1..Len(commitments) : commitments[k] = commitment

nullifier_hash_exists(nullifier_hashes, nullifier_hash) ==
  \E k \in 1..Len(nullifier_hashes) : nullifier_hashes[k] = nullifier_hash

\* an add_commitment that reports success and appends nothing
add_commitment_dropping(commitments, commitment) ==
  [err |-> NoErr, val |-> commitments]

add_commitment(commitments, commitment) ==
  IF commitment_exists(commitments, commitment)
  THEN [err |-> "CommitmentAlreadyExists", val |-> commitments]
  ELSE [err |-> NoErr, val |-> Append(commitments, commitment)]

\* an append that does not look for the hash in the list first
add_nullifier_hash_unchecked(nullifier_hashes, nullifier_hash) ==
  [err |-> NoErr, val |-> Append(nullifier_hashes, nullifier_hash)]

add_nullifier_hash(nullifier_hashes, nullifier_hash) ==
  IF nullifier_hash_exists(nullifier_hashes, nullifier_hash)
  THEN [err |-> "NullifierAlreadySpent", val |-> nullifier_hashes]
  ELSE [err |-> NoErr, val |-> Append(nullifier_hashes, nullifier_hash)]

\* a transfer that credits every account but the source
transfer_sol_crediting_all(balances, from, to, amount) ==
  IF balances[from] < amount
  THEN [err |-> "InsufficientFunds", val |-> balances]
  ELSE [err |-> NoErr,
        val |-> [a \in DOMAIN balances |->
                   IF a = from THEN balances[a] - amount
                   ELSE balances[a] + amount]]

\* a transfer that credits the destination and leaves the source as it was
transfer_sol_without_debit(balances, from, to, amount) ==
  IF balances[from] < amount
  THEN [err |-> "InsufficientFunds", val |-> balances]
  ELSE [err |-> NoErr, val |-> [balances EXCEPT ![to] = balances[to] + amount]]

\* transfer_sol: the system program's transfer, invoked without seeds.  The
\* ledger moves the lamports when the source account holds them.
transfer_sol(balances, from, to, amount) ==
  IF balances[from] < amount
  THEN [err |-> "InsufficientFunds", val |-> balances]
  ELSE [err |-> NoErr,
        val |-> [a \in DOMAIN balances |->
                   IF a = from /\ a = to THEN balances[a]
                   ELSE IF a = from THEN balances[a] - amount
                   ELSE IF a = to THEN balances[a] + amount
                   ELSE balances[a]]]

----------------------------------------------------------------------------
(* verifier.rs *)

\* modulus of the BN254 scalar field Fr, 32 bytes, low byte first
FR_MODULUS ==
  <<1, 0, 0, 240, 147, 245, 225, 67, 145, 112, 185, 121, 72, 232, 51, 40,
    93, 88, 129, 129, 182, 69, 80, 184, 41, 160, 49, 225, 114, 78, 100, 48 >>

\* a >= b for little-endian integers, decided from byte k (1-based) down
RECURSIVE le_bytes_geq_from(_, _, _)
le_bytes_geq_from(a, b, k) ==
  IF k = 0 THEN TRUE
  ELSE IF a[k] > b[k] THEN TRUE
  ELSE IF a[k] < b[k] THEN FALSE
  ELSE le_bytes_geq_from(a, b, k - 1)

le_bytes_geq(a, b) == le_bytes_geq_from(a, b, 32)

RECURSIVE le_bytes_sub_from(_, _, _, _)
le_bytes_sub_from(a, b, k, borrow) ==
  IF k > 32 THEN <<>>
  ELSE LET d == a[k] - b[k] - borrow
       IN  IF d < 0
           THEN <<d + 256>> \o le_bytes_sub_from(a, b, k + 1, 1)
           ELSE <<d>> \o le_bytes_sub_from(a, b, k + 1, 0)

\* Fr::from_le_bytes_mod_order: the integer reduced modulo the field order
RECURSIVE from_le_bytes_mod_order(_)
from_le_bytes_mod_order(data) ==
  IF le_bytes_geq(data, FR_MODULUS)
  THEN from_le_bytes_mod_order(le_bytes_sub_from(data, FR_MODULUS, 1, 0))
  ELSE data

extract_field_element(data) ==
  IF Len(data) # 32
  THEN [err |-> "InvalidProof", val |-> ZeroBytes32]
  ELSE [err |-> NoErr, val |-> from_le_bytes_mod_order(data)]

deserialize_public_inputs(data) ==
  [i \in 1..6 |-> extract_field_element(SubSeq(data, (i - 1) * 32 + 1, i * 32)).val]

\* A proof is known by its length in bytes and by the statement it proves:
\* the six field elements a Groth16 proof for the fixed key binds, or the
\* empty tuple for bytes that prove nothing.  The pairing check accepts a
\* proof exactly for its own statement.
verify_tornado_proof(proof, public_inputs) ==
  IF proof.len # 256 THEN [err |-> "InvalidProof", val |-> FALSE]
  ELSE IF proof.statement = deserialize_public_inputs(public_inputs)
  THEN [err |-> NoErr, val |-> TRUE]
  ELSE [err |-> "InvalidProof", val |-> FALSE]

----------------------------------------------------------------------------
(* state.rs *)

ZeroKey == "11111111111111111111111111111111"

MerkleTreePda == "merkle_tree_pda"

VerifierPda == "verifier_pda"

OtherTreeKey == "other_tree"

RecipientKey == "recipient"

RelayerKey == "relayer"

\* the 32 bytes of the keys that enter the public inputs
to_bytes(key) ==
  IF key = RecipientKey THEN <<7>> \o Bytes(31, 0)
  ELSE IF key = RelayerKey THEN <<8>> \o Bytes(31, 0)
  ELSE ZeroBytes32

\* an account region that holds only zero bytes
ZeroInstance ==
  [is_initialized |-> FALSE, denomination |-> 0, merkle_tree_height |-> 0,
   merkle_tree |-> ZeroKey, verifier |-> ZeroKey]

TornadoInstance(denomination, merkle_tree_height, merkle_tree_key, verifier_key) ==
  [is_initialized |-> TRUE, denomination |-> denomination,
   merkle_tree_height |-> merkle_tree_height,
   merkle_tree |-> merkle_tree_key, verifier |-> verifier_key]

\* the MerkleTree struct; allocated = FALSE is an account without data,
\* which MerkleTree::try_from_slice cannot read
MerkleTree(allocated, height) ==
  [allocated |-> allocated, is_initialized |-> allocated, height |-> height,
   current_index |-> 0, next_index |-> 0, current_root_index |-> 0,
   roots |-> SubSeq([k \in 1..ROOT_HISTORY_SIZE |-> ZeroBytes32], 1, ROOT_HISTORY_SIZE),
   filled_subtrees |-> SubSeq([k \in 1..height |-> ZeroBytes32], 1, height),
   nullifier_hashes |-> <<>>, commitments |-> <<>>]

NoMerkleTree == MerkleTree(FALSE, 0)

\* MerkleTree::get_account_size.  2u32.pow(height) panics from height 32 on
\* where overflow is checked and is 0 (2^height modulo 2^32) where it wraps.
\* Evaluated for heights up to 25 and from 32 on.
get_account_size(height, checks) ==
  IF pow_overflows(height)
  THEN IF checks
       THEN [err |-> "Panic", val |-> 0]
       ELSE [err |-> NoErr,
             val |-> 1 + 1 + 4 + 4 + 1 + (ROOT_HISTORY_SIZE * 32)
                       + (height * 32) + (0 * 32) + (0 * 32)]
  ELSE [err |-> NoErr,
        val |-> 1 + 1 + 4 + 4 + 1 + (ROOT_HISTORY_SIZE * 32) + (height * 32)
                  + (pow2(height) * 32) + (pow2(height) * 32)]

\* the length of the Borsh encoding of a MerkleTree: bool, u8, u32, u32, u8,
\* the 30 roots, and three Vec<[u8; 32]>, each a u32 length and its items
serialized_len(filled_subtrees, nullifier_hashes, commitments) ==
  1 + 1 + 4 + 4 + 1 + (ROOT_HISTORY_SIZE * 32)
    + (4 + filled_subtrees * 32) + (4 + nullifier_hashes * 32)
    + (4 + commitments * 32)

----------------------------------------------------------------------------
(* processor.rs *)

Payer == "payer"

Pool == "pool"

NoIndex == 0 - 1

\* one effect an instruction issued, in program order
Effect(kind, from, to, amount) ==
  [kind |-> kind, from |-> from, to |-> to, amount |-> amount]

TransferEffect(from, to, amount) == Effect("transfer", from, to, amount)

Mark(kind) == Effect(kind, "", "", 0)

\* what an instruction returns, with the accounts as it leaves them
Outcome(result, inst, tree, balances, trace, inserted_index) ==
  [result |-> result, instance |-> inst, merkle_tree |-> tree,
   lamports |-> balances, trace |-> trace, inserted_index |-> inserted_index]

\* Pack::unpack refuses data whose is_initialized flag is unset
unpack(inst) ==
  IF inst.is_initialized THEN [err |-> NoErr, val |-> inst]
  ELSE [err |-> "UninitializedAccount", val |-> inst]

\* MerkleTree::try_from_slice on the tree account's data
try_from_slice(tree) ==
  IF tree.allocated THEN [err |-> NoErr, val |-> tree]
  ELSE [err |-> "BorshIoError", val |-> tree]

\* process_initialize without the check of lines 113-116
process_initialize_unchecked(inst, tree, balances, denomination, merkle_tree_height) ==
  Outcome("Ok",
          TornadoInstance(denomination, merkle_tree_height,
                          MerkleTreePda, VerifierPda),
          tree, balances, <<Mark("serialize_instance")>>, NoIndex)

process_initialize(inst, tree, balances, denomination, merkle_tree_height) ==
  IF inst # ZeroInstance
  THEN Outcome("AccountAlreadyInitialized", inst, tree, balances, <<>>, NoIndex)
  ELSE Outcome("Ok",
               TornadoInstance(denomination, merkle_tree_height,
                               MerkleTreePda, VerifierPda),
               tree, balances, <<Mark("serialize_instance")>>, NoIndex)

\* process_deposit from the return of insert_leaf on (lines 210-223)
\* a Deposit that writes the pool record back with another denomination
process_deposit_of_repricing(ins, inst, tree, paid, trace, commitment) ==
  Outcome(IF ins.err # NoErr THEN ins.err ELSE "Ok",
          [inst EXCEPT !.denomination = inst.denomination + 1],
          tree, paid, trace, NoIndex)

\* a process_deposit that saves the tree without advancing next_index
process_deposit_of_not_advancing(ins, inst, tree, paid, trace, commitment) ==
  IF ins.err # NoErr
  THEN Outcome(ins.err, inst, tree, paid, trace, NoIndex)
  ELSE IF add_commitment(tree.commitments, commitment).err # NoErr
  THEN Outcome(add_commitment(tree.commitments, commitment).err,
               inst, tree, paid, trace, NoIndex)
  ELSE Outcome("Ok", inst,
               [tree EXCEPT !.filled_subtrees = ins.filled_subtrees,
                            !.roots = ins.roots,
                            !.current_root_index = ins.current_root_index,
                            !.commitments =
                              add_commitment(tree.commitments, commitment).val],
               paid, Append(trace, Mark("serialize_tree")), ins.index)

process_deposit_of(ins, inst, tree, paid, trace, commitment) ==
  IF ins.err # NoErr
  THEN Outcome(ins.err, inst, tree, paid, trace, NoIndex)
  ELSE IF add_commitment(tree.commitments, commitment).err # NoErr
  THEN Outcome(add_commitment(tree.commitments, commitment).err,
               inst, tree, paid, trace, NoIndex)
  ELSE Outcome("Ok", inst,
               [tree EXCEPT !.filled_subtrees = ins.filled_subtrees,
                            !.roots = ins.roots,
                            !.current_root_index = ins.current_root_index,
                            !.next_index = tree.next_index + 1,
                            !.commitments =
                              add_commitment(tree.commitments, commitment).val],
               paid, Append(trace, Mark("serialize_tree")), ins.index)

process_deposit(inst, tree, balances, checks, commitment, merkle_tree_key) ==
  LET fail(e, tr) == Outcome(e, inst, tree, balances, tr, NoIndex)
      paid == transfer_sol(balances, Payer, Pool, inst.denomination)
      tr1  == <<TransferEffect(Payer, Pool, inst.denomination)>>
  IN
  IF unpack(inst).err # NoErr
  THEN fail(unpack(inst).err, <<>>)
  ELSE IF inst.merkle_tree # merkle_tree_key
  THEN fail("InvalidAccountData", <<>>)
  ELSE IF try_from_slice(tree).err # NoErr
  THEN fail(try_from_slice(tree).err, <<>>)
  ELSE IF commitment_exists(tree.commitments, commitment)
  THEN fail("CommitmentAlreadyExists", <<>>)
  ELSE IF paid.err # NoErr
  THEN fail(paid.err, tr1)
  ELSE process_deposit_of(
         insert_leaf(commitment, tree.current_index, tree.next_index,
                     tree.height, tree.filled_subtrees, tree.roots,
                     tree.current_root_index, checks),
         inst, tree, paid.val, Append(tr1, Mark("insert_leaf")), commitment)

\* u64::to_le_bytes: the 8 bytes of n, low byte first
RECURSIVE le_bytes(_, _)
le_bytes(n, count) ==
  IF count = 0 THEN <<>> ELSE <<n % 256>> \o le_bytes(n \div 256, count - 1)

to_le_bytes(n) == le_bytes(n, 8)

\* dst[lo..hi].copy_from_slice(src) panics unless src has hi - lo bytes
copy_from_slice(dst, lo, hi, src) ==
  IF Len(src) # hi - lo
  THEN [err |-> "Panic", val |-> dst]
  ELSE [err |-> NoErr,
        val |-> SubSeq(dst, 1, lo) \o src \o SubSeq(dst, hi + 1, Len(dst))]

\* the six copies into public_inputs (processor.rs 306-312), in order
RECURSIVE copy_all(_, _, _)
copy_all(dst, pieces, i) ==
  IF i > Len(pieces) THEN [err |-> NoErr, val |-> dst]
  ELSE LET c == copy_from_slice(dst, (i - 1) * 32, i * 32, pieces[i])
       IN  IF c.err # NoErr THEN c ELSE copy_all(c.val, pieces, i + 1)

build_public_inputs(root, nullifier_hash, recipient_pubkey, relayer_pubkey, fee, refund) ==
  copy_all(Bytes(192, 0),
           <<root, nullifier_hash, to_bytes(recipient_pubkey),
             to_bytes(relayer_pubkey), to_le_bytes(fee), to_le_bytes(refund)>>,
           1)

\* a recipient check that lets every key through
recipient_unchecked(recipient_pubkey, recipient_info_key) == FALSE

\* the recipient and relayer checks of process_withdraw: the key in the
\* instruction against the key of the account passed
recipient_differs(recipient_pubkey, recipient_info_key) ==
  recipient_pubkey # recipient_info_key

relayer_differs(relayer_pubkey, relayer_info_key) ==
  relayer_pubkey # relayer_info_key

\* a fee check that lets every fee through
fee_unchecked(fee, denomination) == FALSE

\* the fee check of process_withdraw
fee_exceeds_denomination(fee, denomination) == fee > denomination

\* a refund check that lets every refund through
refund_unchecked(refund) == FALSE

\* the refund check of process_withdraw
refund_is_nonzero(refund) == refund # 0

\* process_withdraw from the result of the proof check on (processor.rs
\* 314-347): the nullifier hash is added to the tree that was loaded, the
\* transfers are issued, and the tree is written back last
process_withdraw_of(verified, inst, tree, balances, nullifier_hash, fee) ==
  LET fail(e, b, tr) == Outcome(e, inst, tree, b, tr, NoIndex)
      tr1 == <<Mark("verify_tornado_proof")>>
  IN
  IF verified.err # NoErr
  THEN fail(verified.err, balances, tr1)
  ELSE IF ~verified.val
  THEN fail("InvalidProof", balances, tr1)
  ELSE LET spent == add_nullifier_hash(tree.nullifier_hashes, nullifier_hash)
           tr2 == Append(tr1, Mark("add_nullifier_hash"))
       IN
  IF spent.err # NoErr
  THEN fail(spent.err, balances, tr1)
  ELSE LET to_recipient == transfer_sol(balances, Pool, RecipientKey,
                                        inst.denomination - fee)
           tr3 == Append(tr2, TransferEffect(Pool, RecipientKey,
                                             inst.denomination - fee))
       IN
  IF to_recipient.err # NoErr
  THEN fail(to_recipient.err, balances, tr3)
  ELSE LET to_relayer == IF fee > 0
                         THEN transfer_sol(to_recipient.val, Pool, RelayerKey, fee)
                         ELSE [err |-> NoErr, val |-> to_recipient.val]
           tr4 == IF fee > 0
                  THEN Append(tr3, TransferEffect(Pool, RelayerKey, fee))
                  ELSE tr3
       IN
  IF to_relayer.err # NoErr
  THEN fail(to_relayer.err, to_recipient.val, tr4)
  ELSE Outcome("Ok", inst, [tree EXCEPT !.nullifier_hashes = spent.val],
               to_relayer.val, Append(tr4, Mark("serialize_tree")), NoIndex)

process_withdraw(inst, tree, balances, proof, root, nullifier_hash, recipient_pubkey, relayer_pubkey, fee, refund, merkle_tree_key) ==
  LET fail(e, b, tr) == Outcome(e, inst, tree, b, tr, NoIndex)
      tornado_instance == unpack(inst)
  IN
  IF tornado_instance.err # NoErr
  THEN fail(tornado_instance.err, balances, <<>>)
  ELSE IF inst.merkle_tree # merkle_tree_key
  THEN fail("InvalidAccountData", balances, <<>>)
  ELSE IF recipient_differs(recipient_pubkey, RecipientKey)
  THEN fail("InvalidRecipient", balances, <<>>)
  ELSE IF relayer_differs(relayer_pubkey, RelayerKey)
  THEN fail("InvalidRelayer", balances, <<>>)
  ELSE IF fee_exceeds_denomination(fee, inst.denomination)
  THEN fail("InvalidFee", balances, <<>>)
  ELSE IF refund_is_nonzero(refund)
  THEN fail("InvalidAmount", balances, <<>>)
  ELSE LET loaded == try_from_slice(tree) IN
  IF loaded.err # NoErr
  THEN fail(loaded.err, balances, <<>>)
  ELSE IF nullifier_hash_exists(tree.nullifier_hashes, nullifier_hash)
  THEN fail("NullifierAlreadySpent", balances, <<>>)
  ELSE IF ~is_known_root(root, tree.roots, tree.current_root_index)
  THEN fail("InvalidMerkleRoot", balances, <<>>)
  ELSE LET public_inputs == build_public_inputs(root, nullifier_hash,
                              recipient_pubkey, relayer_pubkey, fee, refund)
       IN
  IF public_inputs.err # NoErr
  THEN fail(public_inputs.err, balances, <<>>)
  ELSE process_withdraw_of(
         verify_tornado_proof(proof, public_inputs.val),
         inst, tree, balances, nullifier_hash, fee)

----------------------------------------------------------------------------
(* lib.rs: the entrypoint hands the processor's error to the ledger, which  *)
(* then discards every change the instruction made to the accounts.        *)

\* an entrypoint that logs the error and returns Ok: the ledger keeps what
\* the instruction did before it failed
process_instruction_swallowing(pre, out) ==
  [instance |-> out.instance, merkle_tree |-> out.merkle_tree,
   lamports |-> out.lamports]

process_instruction(pre, out) ==
  IF out.result = "Ok"
  THEN [instance |-> out.instance, merkle_tree |-> out.merkle_tree,
        lamports |-> out.lamports]
  ELSE pre

----------------------------------------------------------------------------
(* The instructions a client can send, and the accounts they act on.       *)

\* largest denomination an Initialize is sent with
MaxDenomination == 2

\* largest tree height below the overflow heights an Initialize is sent with
MaxHeight == 1

\* lamports the payer holds at the start
PayerFunds == 1

Denominations == 0..MaxDenomination

\* merkle_tree_height is a u8; 32 and 33 are the heights at which
\* 2u32.pow(height) leaves the u32 range
Heights == (0..MaxHeight) \cup {32, 33}

C_ZERO == ZeroBytes32

C_ONE == <<1>> \o Bytes(31, 0)

C_ONES == Bytes(32, 1)

\* the field modulus itself, encoded low byte first
C_P == FR_MODULUS

Commitments == {C_ZERO, C_ONE, C_ONES, C_P}

NullifierHashes == {C_ONE, C_ONES}

Fees == {0, 1, MaxDenomination + 1}

Refunds == {0, 1}

TreeKeys == {MerkleTreePda, OtherTreeKey}

\* the 32-byte encoding of a u64 as a public input
u64_input(n) == to_le_bytes(n) \o Bytes(24, 0)

\* the statement of a withdrawal: the circuit's six public inputs
Statement(root, nullifier_hash, recipient_pubkey, relayer_pubkey, fee, refund) ==
  << from_le_bytes_mod_order(root), from_le_bytes_mod_order(nullifier_hash),
     from_le_bytes_mod_order(to_bytes(recipient_pubkey)),
     from_le_bytes_mod_order(to_bytes(relayer_pubkey)),
     from_le_bytes_mod_order(u64_input(fee)),
     from_le_bytes_mod_order(u64_input(refund)) >>

\* a proof of the given statement
ProofOf(statement) == [len |-> 256, statement |-> statement]

\* 256 bytes that prove nothing
JunkProof == [len |-> 256, statement |-> <<>>]

\* bytes too short to be a proof
ShortProof == [len |-> 0, statement |-> <<>>]

WithdrawArgs(proof, root, nullifier_hash, recipient_pubkey, relayer_pubkey, fee, refund, merkle_tree_key) ==
  [proof |-> proof, root |-> root, nullifier_hash |-> nullifier_hash,
   recipient_pubkey |-> recipient_pubkey, relayer_pubkey |-> relayer_pubkey,
   fee |-> fee, refund |-> refund, merkle_tree_key |-> merkle_tree_key]

\* withdrawals naming the pool's tree and the accounts passed, with every
\* combination of root, nullifier hash, fee, refund and proof
Addressed(roots) ==
  UNION { { WithdrawArgs(proof, root, nullifier_hash, RecipientKey, RelayerKey,
                         fee, refund, MerkleTreePda) :
              proof \in {ProofOf(Statement(root, nullifier_hash, RecipientKey,
                                           RelayerKey, fee, refund)),
                         JunkProof} } :
          root \in roots, nullifier_hash \in NullifierHashes,
          fee \in Fees, refund \in Refunds }

\* withdrawals that name another tree, recipient or relayer than the
\* accounts passed, or carry a short proof
Misaddressed(roots) ==
  UNION { { WithdrawArgs(ProofOf(Statement(root, C_ONE, RecipientKey,
                                           RelayerKey, 0, 0)),
                         root, C_ONE, RecipientKey, RelayerKey, 0, 0,
                         OtherTreeKey),
            WithdrawArgs(ProofOf(Statement(root, C_ONE, RelayerKey,
                                           RelayerKey, 0, 0)),
                         root, C_ONE, RelayerKey, RelayerKey, 0, 0,
                         MerkleTreePda),
            WithdrawArgs(ProofOf(Statement(root, C_ONE, RecipientKey,
                                           RecipientKey, 0, 0)),
                         root, C_ONE, RecipientKey, RecipientKey, 0, 0,
                         MerkleTreePda),
            WithdrawArgs(ShortProof, root, C_ONE, RecipientKey, RelayerKey,
                         0, 0, MerkleTreePda) } :
          root \in roots }

\* the roots a Withdraw is sent with: none, and the tree's latest
CurrentRoots ==
  {ZeroBytes32,
   get_last_root(merkle_tree.roots, merkle_tree.current_root_index)}

NoInstruction ==
  [op |-> "None", args |-> <<>>, result |-> "None", trace |-> <<>>,
   inserted_index |-> NoIndex]

Init ==
  /\ instance = ZeroInstance
  /\ merkle_tree = NoMerkleTree
  /\ lamports = [a \in {Payer, Pool, RecipientKey, RelayerKey} |->
                   IF a = Payer THEN PayerFunds ELSE 0]
  /\ overflow_checks \in BOOLEAN
  /\ last = NoInstruction
  /\ produced_roots = <<>>

\* the accounts as the ledger holds them
Accounts ==
  [instance |-> instance, merkle_tree |-> merkle_tree, lamports |-> lamports]

\* the record of an instruction and of what it returned
Instruction(op, args, out) ==
  [op |-> op, args |-> args, result |-> out.result, trace |-> out.trace,
   inserted_index |-> out.inserted_index]

\* the history after an insert: one that succeeded stored the latest root
Produced(history, result, tree) ==
  IF result = "Ok"
  THEN Append(history, get_last_root(tree.roots, tree.current_root_index))
  ELSE history

\* the ledger takes over what process_instruction leaves
Commit(post) ==
  /\ instance' = post.instance
  /\ merkle_tree' = post.merkle_tree
  /\ lamports' = post.lamports

Initialize ==
  \E denomination \in Denominations, merkle_tree_height \in Heights :
    LET out == process_initialize(instance, merkle_tree, lamports,
                                  denomination, merkle_tree_height)
    IN  /\ Commit(process_instruction(Accounts, out))
        /\ last' = Instruction("Initialize",
                               [denomination |-> denomination,
                                merkle_tree_height |-> merkle_tree_height],
                               out)
        /\ UNCHANGED <<overflow_checks, produced_roots>>

\* The program never creates the tree account.  Whoever sets the pool up
\* stores an empty MerkleTree of the pool's height in it, as the tests do.
ProvisionTree ==
  /\ instance.is_initialized
  /\ ~merkle_tree.allocated
  /\ merkle_tree' = MerkleTree(TRUE, instance.merkle_tree_height)
  /\ last' = [NoInstruction EXCEPT !.op = "ProvisionTree"]
  /\ produced_roots' = <<>>
  /\ UNCHANGED <<instance, lamports, overflow_checks>>

Deposit ==
  \E commitment \in Commitments, merkle_tree_key \in TreeKeys :
    LET out == process_deposit(instance, merkle_tree, lamports,
                               overflow_checks, commitment, merkle_tree_key)
    IN  /\ Commit(process_instruction(Accounts, out))
        /\ last' = Instruction("Deposit",
                               [commitment |-> commitment,
                                merkle_tree_key |-> merkle_tree_key],
                               out)
        /\ produced_roots' = Produced(produced_roots, last'.result, merkle_tree')
        /\ UNCHANGED overflow_checks

Withdraw ==
  \E args \in Addressed(CurrentRoots) \cup Misaddressed(CurrentRoots) :
    LET out == process_withdraw(instance, merkle_tree, lamports, args.proof,
                                args.root, args.nullifier_hash,
                                args.recipient_pubkey, args.relayer_pubkey,
                                args.fee, args.refund, args.merkle_tree_key)
    IN  /\ Commit(process_instruction(Accounts, out))
        /\ last' = Instruction("Withdraw", args, out)
        /\ UNCHANGED <<overflow_checks, produced_roots>>

Next == Initialize \/ ProvisionTree \/ Deposit \/ Withdraw

Spec == Init /\ [][Next]_vars

----------------------------------------------------------------------------
(* The functions of merkle_tree.rs and utils.rs that change the tree       *)
(* state, applied on their own as the unit tests apply them: the caller    *)
(* chooses the leaf and the next_index it passes to insert_leaf, and the   *)
(* nullifier hash it passes to add_nullifier_hash.  The tree has height 0, *)
(* where the root insert_leaf stores is the leaf itself.                   *)

\* calls of insert_leaf that succeed, at most
MaxInserts == 31

\* the first MaxVaried leaves are chosen freely, the later ones are numbered
MaxVaried == 2

NumberedLeaf(k) == <<k>> \o Bytes(31, 0)

TreeLeaves(m) ==
  {NumberedLeaf(m + 1)} \cup (IF m < MaxVaried THEN {ZeroBytes32, C_ONES} ELSE {})

TreeInit ==
  /\ instance = ZeroInstance
  /\ merkle_tree = MerkleTree(TRUE, 0)
  /\ lamports = [a \in {Payer, Pool, RecipientKey, RelayerKey} |-> 0]
  /\ overflow_checks \in BOOLEAN
  /\ last = NoInstruction
  /\ produced_roots = <<>>

\* the record of a call and of what it returned
Call(op, args, err) ==
  [NoInstruction EXCEPT !.op = op, !.args = args,
                        !.result = IF err = NoErr THEN "Ok" ELSE err]

InsertLeaf ==
  /\ Len(produced_roots) < MaxInserts
  /\ \E leaf \in TreeLeaves(Len(produced_roots)), next_index \in 0..1 :
       LET r == insert_leaf(leaf, 0, next_index, merkle_tree.height,
                            merkle_tree.filled_subtrees, merkle_tree.roots,
                            merkle_tree.current_root_index, overflow_checks)
       IN  /\ merkle_tree' =
                [merkle_tree EXCEPT
                   !.filled_subtrees = r.filled_subtrees,
                   !.roots = r.roots,
                   !.current_root_index = r.current_root_index]
           /\ last' = Call("insert_leaf",
                           [leaf |-> leaf, next_index |-> next_index], r.err)
           /\ produced_roots' =
                Produced(produced_roots, last'.result, merkle_tree')
           /\ UNCHANGED <<instance, lamports, overflow_checks>>

AddNullifierHash ==
  \E nullifier_hash \in NullifierHashes :
    LET r == add_nullifier_hash(merkle_tree.nullifier_hashes, nullifier_hash)
    IN  /\ merkle_tree' = [merkle_tree EXCEPT !.nullifier_hashes = r.val]
        /\ last' = Call("add_nullifier_hash",
                        [nullifier_hash |-> nullifier_hash], r.err)
        /\ UNCHANGED <<instance, lamports, overflow_checks, produced_roots>>

TreeNext == InsertLeaf \/ AddNullifierHash

TreeSpec == TreeInit /\ [][TreeNext]_vars

----------------------------------------------------------------------------
(* The functions around the proof check applied on their own, as the tests *)
(* of verifier.rs apply them: the caller hands verify_tornado_proof a      *)
(* proof and a 192-byte vector, and build_public_inputs six values.        *)

\* the largest fee and refund handed to build_public_inputs
MaxAmount == 65536

Amounts == {0, 1, 255, 256, MaxAmount}

\* the encoding of p + 1: not canonical, and 1 when reduced modulo p
C_P_PLUS_ONE == <<2>> \o SubSeq(FR_MODULUS, 2, 32)

\* the 192 bytes the interface lays out for a withdrawal: six 32-byte
\* slots, the two integers low byte first and zero-padded
InputVector(root, nullifier_hash, recipient_pubkey, relayer_pubkey, fee, refund) ==
  root \o nullifier_hash \o to_bytes(recipient_pubkey)
    \o to_bytes(relayer_pubkey) \o u64_input(fee) \o u64_input(refund)

\* the withdrawals whose vectors and proofs are handed to the verifier
VerifierInputs ==
  [root : {C_ONES}, nullifier_hash : {C_ZERO, C_ONE, C_P, C_P_PLUS_ONE},
   recipient_pubkey : {RecipientKey}, relayer_pubkey : {RelayerKey},
   fee : {0, 1}, refund : {0}]

VectorOf(w) ==
  InputVector(w.root, w.nullifier_hash, w.recipient_pubkey, w.relayer_pubkey,
              w.fee, w.refund)

ProofFor(w) ==
  ProofOf(Statement(w.root, w.nullifier_hash, w.recipient_pubkey,
                    w.relayer_pubkey, w.fee, w.refund))

VerifierInit ==
  /\ instance = ZeroInstance
  /\ merkle_tree = NoMerkleTree
  /\ lamports = [a \in {Payer, Pool, RecipientKey, RelayerKey} |-> 0]
  /\ overflow_checks \in BOOLEAN
  /\ last = NoInstruction
  /\ produced_roots = <<>>

\* verify_tornado_proof with the proof made for one withdrawal, or bytes
\* that prove nothing, and the vector of another
VerifyProof ==
  /\ \E proved \in VerifierInputs, submitted \in VerifierInputs :
     \E proof \in {ProofFor(proved), JunkProof, ShortProof} :
       LET r == verify_tornado_proof(proof, VectorOf(submitted))
       IN  last' = Call("verify_tornado_proof",
                        [proof |-> proof, submitted |-> submitted,
                         public_inputs |-> VectorOf(submitted)], r.err)
  /\ UNCHANGED <<instance, merkle_tree, lamports, overflow_checks,
                 produced_roots>>

BuildPublicInputs ==
  /\ \E root \in {C_ONES}, nullifier_hash \in NullifierHashes,
        fee \in Amounts, refund \in Amounts :
       LET r == build_public_inputs(root, nullifier_hash, RecipientKey,
                                    RelayerKey, fee, refund)
       IN  last' = Call("build_public_inputs",
                        [root |-> root, nullifier_hash |-> nullifier_hash,
                         fee |-> fee, refund |-> refund,
                         public_inputs |-> r.val], r.err)
  /\ UNCHANGED <<instance, merkle_tree, lamports, overflow_checks,
                 produced_roots>>

VerifierNext == VerifyProof \/ BuildPublicInputs

VerifierSpec == VerifierInit /\ [][VerifierNext]_vars

----------------------------------------------------------------------------
(* Properties.  last' is the instruction a step executed; the unprimed     *)
(* variables are the accounts before it and the primed ones after it.      *)

IsInstruction(rec) == rec.op \in {"Initialize", "Deposit", "Withdraw"}

NoTransfer(trace) == \A k \in 1..Len(trace) : trace[k].kind # "transfer"

\* the integer a 32-byte little-endian encoding stands for is below p
Canonical(value) == ~le_bytes_geq(value, FR_MODULUS)

Present(list, value) == \E k \in 1..Len(list) : list[k] = value

\* a pool whose parameters the interface admits
ValidParameters(inst) ==
  inst.is_initialized /\ inst.denomination > 0
    /\ inst.merkle_tree_height \in 1..32

\* the documented preconditions of Withdraw, for the accounts as they are
\* and a pool that takes a real denomination
MeetsWithdrawPreconditions(args) ==
  /\ instance.is_initialized
  /\ instance.denomination > 0
  /\ merkle_tree.allocated
  /\ args.merkle_tree_key = instance.merkle_tree
  /\ args.recipient_pubkey = RecipientKey
  /\ args.relayer_pubkey = RelayerKey
  /\ args.fee <= instance.denomination
  /\ args.refund = 0
  /\ Canonical(args.nullifier_hash)
  /\ ~Present(merkle_tree.nullifier_hashes, args.nullifier_hash)
  /\ args.root # ZeroBytes32
  /\ Present(merkle_tree.roots, args.root)
  /\ args.proof = ProofOf(Statement(args.root, args.nullifier_hash,
                                    args.recipient_pubkey, args.relayer_pubkey,
                                    args.fee, args.refund))
  /\ lamports[Pool] >= instance.denomination

\* the Withdraw of the record sent once more, to the accounts as they are
Resubmitted(rec) ==
  process_withdraw(instance, merkle_tree, lamports, rec.args.proof,
                   rec.args.root, rec.args.nullifier_hash,
                   rec.args.recipient_pubkey, rec.args.relayer_pubkey,
                   rec.args.fee, rec.args.refund, rec.args.merkle_tree_key)

C4_WithdrawHappyPath ==
  [][ (/\ last'.op = "Withdraw"
       /\ merkle_tree.next_index > 0
       /\ MeetsWithdrawPreconditions(last'.args))
        => /\ last'.result = "Ok"
           /\ lamports'[RecipientKey] =
                lamports[RecipientKey] + instance.denomination - last'.args.fee
           /\ lamports'[RelayerKey] = lamports[RelayerKey] + last'.args.fee
           /\ lamports'[Pool] = lamports[Pool] - instance.denomination
           /\ Present(merkle_tree'.nullifier_hashes,
                      last'.args.nullifier_hash) ]_vars

\* C5: after a successful Initialize(denomination, height) the pool record
\* holds exactly those values, and the pool's tree state exists and is
\* empty: next_index = 0, current_root_index = 0, every root all-zero, no
\* commitment and no nullifier hash.
C5_InitializeCreatesEmptyTree ==
  [][ (last'.op = "Initialize" /\ last'.result = "Ok")
        => /\ instance'.is_initialized
           /\ instance'.denomination = last'.args.denomination
           /\ instance'.merkle_tree_height = last'.args.merkle_tree_height
           /\ merkle_tree'.allocated
           /\ merkle_tree'.next_index = 0
           /\ merkle_tree'.current_root_index = 0
           /\ \A k \in 1..ROOT_HISTORY_SIZE :
                merkle_tree'.roots[k] = ZeroBytes32
           /\ merkle_tree'.commitments = <<>>
           /\ merkle_tree'.nullifier_hashes = <<>> ]_vars

\* C6: in a pool that a successful Initialize with admissible parameters
\* produced and that holds no deposit yet, the first Deposit of a canonical
\* non-zero commitment by a funded payer returns Ok: next_index becomes 1, the pool
\* balance grows by exactly denomination, current_root_index becomes 1,
\* roots[1] is non-zero and the commitment is recorded.
C6_FirstDepositSucceeds ==
  [][ (/\ last'.op = "Deposit"
       /\ ValidParameters(instance)
       /\ merkle_tree.next_index = 0
       /\ merkle_tree.commitments = <<>>
       /\ last'.args.merkle_tree_key = instance.merkle_tree
       /\ Canonical(last'.args.commitment)
       /\ last'.args.commitment # ZeroBytes32
       /\ lamports[Payer] >= instance.denomination)
        => /\ last'.result = "Ok"
           /\ merkle_tree'.next_index = 1
           /\ lamports'[Pool] = lamports[Pool] + instance.denomination
           /\ merkle_tree'.current_root_index = 1
           /\ merkle_tree'.roots[2] # ZeroBytes32
           /\ Present(merkle_tree'.commitments, last'.args.commitment) ]_vars

\* C7: the pool lifecycle is one-way.  Initialize returns Ok only on an
\* all-zero pool region; on an initialised pool every Initialize fails with
\* AccountAlreadyInitialized and leaves the record as it was; and no step
\* takes an initialised pool back to uninitialised.
C7_PoolLifecycleOneWay ==
  [][ /\ (last'.op = "Initialize" /\ last'.result = "Ok")
           => instance = ZeroInstance
      /\ (last'.op = "Initialize" /\ instance.is_initialized)
           => (last'.result = "AccountAlreadyInitialized"
                 /\ instance' = instance)
      /\ instance.is_initialized => instance'.is_initialized ]_vars

\* an Initialize was refused on an initialised pool
C7_SecondInitializeRefused ==
  /\ last.op = "Initialize"
  /\ last.result = "AccountAlreadyInitialized"
  /\ instance.is_initialized
  /\ \/ instance.denomination # last.args.denomination
     \/ instance.merkle_tree_height # last.args.merkle_tree_height

\* C8: Initialize validates its parameters.  On a fresh pool region an
\* Initialize with denomination = 0 or with a height outside 1..32 fails
\* with an invalid-parameter error and writes no pool record.
C8_InitializeValidatesParameters ==
  [][ (/\ last'.op = "Initialize"
       /\ instance = ZeroInstance
       /\ \/ last'.args.denomination = 0
          \/ last'.args.merkle_tree_height \notin 1..32)
        => /\ last'.result = "InvalidParameter"
           /\ instance' = ZeroInstance ]_vars

\* C9: duplicate commitments are rejected.  A Deposit into the pool's tree
\* whose commitment the tree already holds fails with
\* CommitmentAlreadyExists, issues no transfer and leaves next_index, the
\* roots, the commitments and every balance unchanged; and add_commitment of
\* an element of the list returns an error and a list of the same length.
C9_DuplicateCommitmentRejected ==
  /\ [][ (/\ last'.op = "Deposit"
          /\ instance.is_initialized
          /\ last'.args.merkle_tree_key = instance.merkle_tree
          /\ Present(merkle_tree.commitments, last'.args.commitment))
           => /\ last'.result = "CommitmentAlreadyExists"
              /\ NoTransfer(last'.trace)
              /\ merkle_tree' = merkle_tree
              /\ lamports' = lamports ]_vars
  /\ [](\A c \in Commitments :
          Present(merkle_tree.commitments, c)
            => /\ add_commitment(merkle_tree.commitments, c).err
                    = "CommitmentAlreadyExists"
               /\ Len(add_commitment(merkle_tree.commitments, c).val)
                    = Len(merkle_tree.commitments))

\* the commitment the tree holds was deposited again and refused
C9_DuplicateRefused ==
  /\ last.op = "Deposit"
  /\ last.result = "CommitmentAlreadyExists"
  /\ merkle_tree.next_index = 1
  /\ merkle_tree.commitments = <<last.args.commitment>>

\* C10: a Deposit of a non-canonical commitment (integer value >= p, such as
\* the encoding of p) into an initialised pool with admissible parameters
\* and an existing tree fails with InvalidCommitment, and no transfer from
\* the payer is issued before the failure.
C10_NonCanonicalCommitmentRejected ==
  [][ (/\ last'.op = "Deposit"
       /\ ValidParameters(instance)
       /\ merkle_tree.allocated
       /\ last'.args.merkle_tree_key = instance.merkle_tree
       /\ ~Canonical(last'.args.commitment))
        => /\ last'.result = "InvalidCommitment"
           /\ NoTransfer(last'.trace) ]_vars

\* next_index < 2^height, for the counters a run of the model holds
BelowCapacity(next_index, height) ==
  height >= 31 \/ next_index < pow2(height)

\* a Deposit of a canonical commitment the tree does not hold yet, by a
\* funded payer, into the existing tree of a pool with admissible parameters
FreshDeposit(rec) ==
  /\ rec.op = "Deposit"
  /\ ValidParameters(instance)
  /\ merkle_tree.allocated
  /\ rec.args.merkle_tree_key = instance.merkle_tree
  /\ Canonical(rec.args.commitment)
  /\ ~Present(merkle_tree.commitments, rec.args.commitment)
  /\ lamports[Payer] >= instance.denomination

\* C11: tree capacity.  In a pool of height h a Deposit of a canonical
\* commitment not deposited before succeeds while fewer than 2^h leaves are
\* in the tree and fails with MerkleTreeFull once 2^h are; and insert_leaf
\* returns MerkleTreeFull whenever next_index >= 2^height, leaving roots and
\* current_root_index as they were.
C11_TreeCapacity ==
  /\ [][ FreshDeposit(last')
           => /\ BelowCapacity(merkle_tree.next_index,
                               instance.merkle_tree_height)
                   => (last'.result = "Ok"
                         /\ merkle_tree'.next_index
                              = merkle_tree.next_index + 1)
              /\ ~BelowCapacity(merkle_tree.next_index,
                                instance.merkle_tree_height)
                   => (last'.result = "MerkleTreeFull"
                         /\ merkle_tree'.roots = merkle_tree.roots
                         /\ merkle_tree'.current_root_index
                              = merkle_tree.current_root_index) ]_vars
  /\ [](\A c \in Commitments :
          (merkle_tree.allocated
             /\ ~BelowCapacity(merkle_tree.next_index, merkle_tree.height))
            => LET r == insert_leaf(c, 0, merkle_tree.next_index,
                                    merkle_tree.height,
                                    merkle_tree.filled_subtrees,
                                    merkle_tree.roots,
                                    merkle_tree.current_root_index,
                                    overflow_checks)
               IN  /\ r.err = "MerkleTreeFull"
                   /\ r.roots = merkle_tree.roots
                   /\ r.current_root_index = merkle_tree.current_root_index)

\* next_index = 2^height and next_index <= 2^height, for the counters a run
\* of the model holds (all below 2^31)
AtCapacity(next_index, height) ==
  height <= 30 /\ next_index = pow2(height)

WithinCapacity(next_index, height) ==
  height >= 31 \/ next_index <= pow2(height)

\* C12: for every configured height h in 1..32, h = 32 included,
\* next_index <= 2^h in every reachable state, and an insert is refused with
\* MerkleTreeFull exactly when next_index = 2^h.
C12_NextIndexWithinCapacity ==
  /\ []((ValidParameters(instance) /\ merkle_tree.allocated)
          => WithinCapacity(merkle_tree.next_index, merkle_tree.height))
  /\ [][ FreshDeposit(last')
           => (last'.result = "MerkleTreeFull"
                 <=> AtCapacity(merkle_tree.next_index,
                                instance.merkle_tree_height)) ]_vars

\* the last min(m, ROOT_HISTORY_SIZE) of the m roots of a history
LastRoots(history) ==
  {history[k] : k \in { j \in 1..Len(history) :
                          j > Len(history) - ROOT_HISTORY_SIZE }}

\* roots to ask is_known_root about: every root an insert can have stored,
\* the all-zero root, and a root that no insert stores
RootCandidates ==
  {ZeroBytes32, C_ONES, C_P} \cup {NumberedLeaf(k) : k \in 1..(MaxInserts + 1)}

ReachesRootCheck(args) ==
  /\ instance.is_initialized
  /\ merkle_tree.allocated
  /\ args.merkle_tree_key = instance.merkle_tree
  /\ args.recipient_pubkey = RecipientKey
  /\ args.relayer_pubkey = RelayerKey
  /\ args.fee <= instance.denomination
  /\ args.refund = 0
  /\ ~Present(merkle_tree.nullifier_hashes, args.nullifier_hash)

\* C14: zero-root rejection.  is_known_root is false for the all-zero root
\* in every reachable state, a tree whose ring slots are all zero included;
\* a Withdraw with the all-zero root never returns Ok, and one that reaches
\* the root check fails there with InvalidMerkleRoot.
C14_ZeroRootRejected ==
  /\ [](~is_known_root(ZeroBytes32, merkle_tree.roots,
                       merkle_tree.current_root_index))
  /\ [][ (last'.op = "Withdraw" /\ last'.args.root = ZeroBytes32)
           => /\ last'.result # "Ok"
              /\ ReachesRootCheck(last'.args)
                   => last'.result = "InvalidMerkleRoot" ]_vars

\* a Withdraw with the all-zero root was refused at the root check of a
\* tree whose ring slots are all zero
C14_ZeroRootRefusedOnFreshTree ==
  /\ last.op = "Withdraw"
  /\ last.args.root = ZeroBytes32
  /\ last.result = "InvalidMerkleRoot"
  /\ merkle_tree.allocated
  /\ \A k \in 1..ROOT_HISTORY_SIZE : merkle_tree.roots[k] = ZeroBytes32

\* a Withdraw that meets every documented precondition except, possibly,
\* the one on its root
MeetsPreconditionsButRoot(args) ==
  /\ ReachesRootCheck(args)
  /\ instance.denomination > 0
  /\ Canonical(args.nullifier_hash)
  /\ args.proof = ProofOf(Statement(args.root, args.nullifier_hash,
                                    args.recipient_pubkey, args.relayer_pubkey,
                                    args.fee, args.refund))
  /\ lamports[Pool] >= instance.denomination

\* C15: stale-root window.  A Withdraw succeeds only if its root is in the
\* ring when it executes: one that meets every other precondition is
\* accepted while its root is one of the roots the ring holds, and fails
\* with InvalidMerkleRoot once the root has left the ring.
C15_StaleRootWindow ==
  [][ (last'.op = "Withdraw" /\ MeetsPreconditionsButRoot(last'.args))
        => IF /\ last'.args.root # ZeroBytes32
              /\ Present(merkle_tree.roots, last'.args.root)
           THEN last'.result = "Ok"
           ELSE last'.result = "InvalidMerkleRoot" ]_vars

\* H of two subtree roots, when both exist
HashOfRoots(left, right) ==
  IF left.err # NoErr THEN left
  ELSE IF right.err # NoErr THEN right
  ELSE hash_left_right(left.val, right.val)

\* Z[i], the root of an empty subtree of height i:
\* Z[0] = ZERO_VALUE and Z[i] = H(Z[i-1], Z[i-1])
HashOfTwo(root) == HashOfRoots(root, root)

RECURSIVE EmptySubtreeRoot(_)
EmptySubtreeRoot(i) ==
  IF i = 0 THEN [err |-> NoErr, val |-> ZERO_VALUE]
  ELSE HashOfTwo(EmptySubtreeRoot(i - 1))

\* the root of the subtree of the given height whose leftmost leaf has the
\* 0-based index first, in the full tree that holds the leaves and then
\* zero leaves
RECURSIVE SubtreeRoot(_, _, _)
SubtreeRoot(leaves, height, first) ==
  IF first >= Len(leaves) THEN EmptySubtreeRoot(height)
  ELSE IF height = 0 THEN [err |-> NoErr, val |-> leaves[first + 1]]
  ELSE HashOfRoots(SubtreeRoot(leaves, height - 1, first),
                   SubtreeRoot(leaves, height - 1, first + pow2(height - 1)))

\* C16: root correctness.  When the tree of a pool of height h holds the
\* leaves L_0..L_{k-2} and takes L_{k-1} (k <= 2^h), the root stored at
\* roots[current_root_index] after the insert is the root of the full
\* height-h Merkle tree whose first k leaves are L_0..L_{k-1} and whose
\* other leaves are Z[0], computed with hash_left_right.
C16_StoredRootIsMerkleRoot ==
  [][ (/\ FreshDeposit(last')
       /\ instance.merkle_tree_height <= 30
       /\ merkle_tree.height = instance.merkle_tree_height
       /\ Len(merkle_tree.commitments) = merkle_tree.next_index
       /\ BelowCapacity(merkle_tree.next_index, merkle_tree.height))
        => /\ merkle_tree'.commitments
                = Append(merkle_tree.commitments, last'.args.commitment)
           /\ SubtreeRoot(Append(merkle_tree.commitments,
                                 last'.args.commitment),
                          merkle_tree.height, 0)
                = [err |-> NoErr,
                   val |-> get_last_root(merkle_tree'.roots,
                                         merkle_tree'.current_root_index)]
         ]_vars

NoDuplicates(list) ==
  \A j, k \in 1..Len(list) : list[j] = list[k] => j = k

InterfaceCodes ==
  [MerkleTreeFull |-> 4, InvalidCommitment |-> 5,
   CommitmentAlreadyExists |-> 6, InvalidNullifierHash |-> 7,
   NullifierAlreadySpent |-> 8, InvalidMerkleRoot |-> 9, InvalidProof |-> 10,
   InvalidFee |-> 11, InvalidRecipient |-> 12, InvalidRelayer |-> 13,
   InvalidAmount |-> 14, InsufficientFunds |-> 15]

\* C18: a failure surfaces as the custom error code of the interface table:
\* MerkleTreeFull as 4, a malformed commitment as 5, a duplicate commitment
\* as 6, a malformed nullifier as 7, a spent nullifier as 8, an unknown root
\* as 9, an invalid proof as 10, an invalid fee as 11, an invalid recipient
\* as 12, an invalid relayer as 13, an invalid refund as 14 and insufficient
\* funds as 15.
C18_ErrorCodesOfInterfaceTable ==
  [][ (IsInstruction(last') /\ last'.result \in DOMAIN InterfaceCodes)
        => custom_code(last'.result) = InterfaceCodes[last'.result] ]_vars

\* a Withdraw that every check of process_withdraw before the fee check lets
\* through, for the accounts as they are
ReachesFeeCheck(args) ==
  /\ instance.is_initialized
  /\ args.merkle_tree_key = instance.merkle_tree
  /\ args.recipient_pubkey = RecipientKey
  /\ args.relayer_pubkey = RelayerKey

\* nothing of the tail of process_withdraw was run: neither the verifier,
\* nor the nullifier insertion, nor a transfer
StoppedBeforeVerification(trace) ==
  \A k \in 1..Len(trace) :
    trace[k].kind \notin {"verify_tornado_proof", "add_nullifier_hash",
                          "transfer"}

\* C19: a Withdraw with fee > denomination, sent to an initialised pool with
\* its tree, recipient and relayer accounts, fails with InvalidFee; and no
\* Withdraw with fee > denomination gets as far as the verifier, the
\* nullifier insertion or a transfer.
C19_InvalidFeeBeforeVerification ==
  [][ (/\ last'.op = "Withdraw"
       /\ instance.is_initialized
       /\ last'.args.fee > instance.denomination)
        => /\ ReachesFeeCheck(last'.args) => last'.result = "InvalidFee"
           /\ last'.result # "Ok"
           /\ StoppedBeforeVerification(last'.trace)
           /\ merkle_tree'.nullifier_hashes = merkle_tree.nullifier_hashes
           /\ lamports' = lamports ]_vars

\* a Withdraw with fee = denomination + 1 and a proof valid for its inputs
\* was refused with InvalidFee
C19_ExcessiveFeeRefused ==
  /\ last.op = "Withdraw"
  /\ last.result = "InvalidFee"
  /\ instance.denomination > 0
  /\ last.args.fee = instance.denomination + 1
  /\ last.args.refund = 0
  /\ last.args.proof # JunkProof
  /\ last.trace = <<>>

\* C20: a Withdraw with refund # 0 is rejected whatever its proof: none
\* returns Ok, inserts a nullifier hash or issues a transfer, and one that
\* the checks before the refund check let through (pool initialised, tree,
\* recipient and relayer accounts as passed, fee <= denomination) fails with
\* InvalidAmount.
C20_NonZeroRefundRejected ==
  [][ (/\ last'.op = "Withdraw"
       /\ instance.is_initialized
       /\ last'.args.refund # 0)
        => /\ (ReachesFeeCheck(last'.args)
                 /\ last'.args.fee <= instance.denomination)
                => last'.result = "InvalidAmount"
           /\ last'.result # "Ok"
           /\ StoppedBeforeVerification(last'.trace)
           /\ merkle_tree'.nullifier_hashes = merkle_tree.nullifier_hashes
           /\ lamports' = lamports ]_vars

\* a Withdraw with refund 1, a root of the ring and a proof valid for its
\* inputs was refused with InvalidAmount
C20_RefundRefusedDespiteValidProof ==
  /\ last.op = "Withdraw"
  /\ last.result = "InvalidAmount"
  /\ last.args.refund = 1
  /\ last.args.fee <= instance.denomination
  /\ last.args.root # ZeroBytes32
  /\ Present(merkle_tree.roots, last.args.root)
  /\ last.args.proof = ProofOf(Statement(last.args.root,
                                         last.args.nullifier_hash,
                                         last.args.recipient_pubkey,
                                         last.args.relayer_pubkey,
                                         last.args.fee, last.args.refund))

\* the i-th 32-byte slot of a public-input vector
Slot(public_inputs, i) == SubSeq(public_inputs, (i - 1) * 32 + 1, i * 32)

\* C21: canonicity of withdrawal inputs.  A proof check whose vector holds
\* a non-canonical encoding (integer value >= p) in any of its six slots,
\* the nullifier hash among them, does not accept: the value is rejected,
\* never reduced modulo p.
C21_NonCanonicalInputRejected ==
  [][ (/\ last'.op = "verify_tornado_proof"
       /\ \E i \in 1..6 : ~Canonical(Slot(last'.args.public_inputs, i)))
        => last'.result # "Ok" ]_vars

\* C22: proof / public-input binding.  When a proof was accepted for one
\* vector of public inputs, the same proof handed in with a vector that
\* differs in any byte is not accepted.
C22_ProofBoundToPublicInputs ==
  [][ (/\ last.op = "verify_tornado_proof"
       /\ last.result = "Ok"
       /\ last'.op = "verify_tornado_proof"
       /\ last'.args.proof = last.args.proof
       /\ last'.args.public_inputs # last.args.public_inputs)
        => last'.result # "Ok" ]_vars

\* at least two leaves are free
TwoFreeLeaves(next_index, height) ==
  height >= 31 \/ next_index + 2 <= pow2(height)

\* the Deposit of another commitment, by another funded payer, to the
\* accounts as they are
DepositOf(commitment) ==
  process_deposit(instance, merkle_tree,
                  [lamports EXCEPT ![Payer] = instance.denomination],
                  overflow_checks, commitment, instance.merkle_tree)

\* C23: two Deposits of distinct fresh canonical commitments into a pool
\* with at least two free leaves, committed one after the other in either
\* order, both succeed: next_index advances by exactly 2, the two deposits
\* get consecutive leaf indices, and the roots both of them produced are
\* known roots afterwards.
C23_TwoDepositsBothCommit ==
  [][ (/\ FreshDeposit(last')
       /\ TwoFreeLeaves(merkle_tree.next_index, instance.merkle_tree_height))
        => \A second \in Commitments :
             (/\ Canonical(second)
              /\ second # last'.args.commitment
              /\ ~Present(merkle_tree.commitments, second))
               => /\ last'.result = "Ok"
                  /\ DepositOf(second)'.result = "Ok"
                  /\ last'.inserted_index = merkle_tree.next_index
                  /\ DepositOf(second)'.inserted_index
                       = merkle_tree.next_index + 1
                  /\ DepositOf(second)'.merkle_tree.next_index
                       = merkle_tree.next_index + 2
                  /\ \A root \in
                       {get_last_root(merkle_tree'.roots,
                                      merkle_tree'.current_root_index),
                        get_last_root(
                          DepositOf(second)'.merkle_tree.roots,
                          DepositOf(second)'.merkle_tree.current_root_index)} :
                       is_known_root(
                         root, DepositOf(second)'.merkle_tree.roots,
                         DepositOf(second)'.merkle_tree.current_root_index)
    ]_vars

\* the positions of the effects of a kind in a trace
Positions(trace, kinds) == {k \in 1..Len(trace) : trace[k].kind \in kinds}

\* the order of effects the interface prescribes for a Withdraw: the tree
\* with the nullifier hash is written before the first transfer, the
\* transfer to the recipient comes before the one to the relayer, and
\* nothing follows the transfers
PrescribedOrder(trace) ==
  /\ Positions(trace, {"transfer"}) # {}
  /\ \E w \in Positions(trace, {"serialize_tree"}) :
       \A t \in Positions(trace, {"transfer"}) : w < t
  /\ \A j, k \in Positions(trace, {"transfer"}) :
       (trace[j].to = RecipientKey /\ trace[k].to = RelayerKey) => j < k
  /\ trace[Len(trace)].kind = "transfer"

\* C24: Withdraw effect order.  In a Withdraw that succeeds, from the
\* accepted proof on, the nullifier hash is written to the stored nullifier
\* set before the transfer to the recipient is issued, the transfer to the
\* recipient precedes the one to the relayer, and the transfers are the
\* last effects: no write of state follows them.
C24_WithdrawEffectOrder ==
  [](\A nullifier_hash \in NullifierHashes, fee \in Fees :
       (/\ instance.is_initialized
        /\ instance.denomination > 0
        /\ merkle_tree.allocated
        /\ fee <= instance.denomination
        /\ process_withdraw_of([err |-> NoErr, val |-> TRUE], instance,
                               merkle_tree, lamports, nullifier_hash,
                               fee).result = "Ok")
         => PrescribedOrder(
              process_withdraw_of([err |-> NoErr, val |-> TRUE], instance,
                                  merkle_tree, lamports, nullifier_hash,
                                  fee).trace))

\* C25: the pool configuration is immutable after creation.  No Deposit, no
\* Withdraw and no Initialize that is refused changes the pool record: its
\* initialised flag, denomination, height, tree address and verifier
\* address stay as they were.
C25_PoolRecordImmutable ==
  [][ (\/ last'.op \in {"Deposit", "Withdraw"}
       \/ (last'.op = "Initialize" /\ last'.result # "Ok"))
        => /\ instance'.is_initialized = instance.is_initialized
           /\ instance'.denomination = instance.denomination
           /\ instance'.merkle_tree_height = instance.merkle_tree_height
           /\ instance'.merkle_tree = instance.merkle_tree
           /\ instance'.verifier = instance.verifier ]_vars

\* a Deposit succeeded in an initialised pool and changed the tree and the
\* balances
C25_DepositLeftRecordAlone ==
  /\ last.op = "Deposit"
  /\ last.result = "Ok"
  /\ instance.is_initialized
  /\ instance.denomination > 0
  /\ merkle_tree.next_index = 1
  /\ lamports[Pool] = instance.denomination

\* C26: zero-subtree table.  For every level i that an insert into a tree
\* of height up to 32 uses, the fill value get_zero_value(i) is Z[i], where
\* Z[0] is the zero leaf ZERO_VALUE and Z[i] = H(Z[i-1], Z[i-1]) with
\* hash_left_right as H.
C26_ZeroValuesAreEmptySubtreeRoots ==
  []((merkle_tree.allocated /\ merkle_tree.height <= 32)
       => \A i \in 0..(merkle_tree.height - 1) :
            EmptySubtreeRoot(i) = [err |-> NoErr, val |-> get_zero_value(i)])

ReachedInsert(trace) ==
  \E k \in 1..Len(trace) : trace[k] = Mark("insert_leaf")

\* the loads of filled_subtrees made by the insert of leaf into the tree
LoadsOfInsert(tree, leaf, checks) ==
  insert_leaf(leaf, tree.current_index, tree.next_index, tree.height,
              tree.filled_subtrees, tree.roots, tree.current_root_index,
              checks).read

BitOf(index, i) == (index \div pow2(i)) % 2

\* the root of the full subtree of height i to the left of the path of leaf
\* number index, over the leaves the tree holds
LeftSibling(leaves, index, i) ==
  SubtreeRoot(leaves, i, ((index \div pow2(i)) - 1) * pow2(i))

RootsSoFar(tree, history) ==
  <<EmptySubtreeRoot(tree.height).val>> \o history

C30_PublicInputVectorBuilt ==
  [][ last'.op = "build_public_inputs"
        => /\ last'.result = "Ok"
           /\ Len(last'.args.public_inputs) = 192
           /\ last'.args.public_inputs =
                InputVector(last'.args.root, last'.args.nullifier_hash,
                            RecipientKey, RelayerKey,
                            last'.args.fee, last'.args.refund)
    ]_vars

\* a Deposit whose insert hashed the commitment at level 0 of the tree
HashedCommitment(rec) ==
  /\ rec.op = "Deposit"
  /\ ReachedInsert(rec.trace)
  /\ merkle_tree.height \in 1..31
  /\ merkle_tree.next_index = 0

\* C31: canonicity boundary.  The encoding that the insert of a Deposit
\* hands to hash_left_right is accepted as a field element if and only if
\* its little-endian integer is below the modulus p; the encoding of p is
\* rejected, and hash_left_right with FIELD_SIZE as an input returns an
\* error.
C31_AcceptedIffBelowModulus ==
  [][ HashedCommitment(last')
        => /\ is_within_field(last'.args.commitment)
                <=> Canonical(last'.args.commitment)
           /\ ~is_within_field(C_P)
           /\ hash_left_right(FIELD_SIZE, last'.args.commitment).err # NoErr
    ]_vars

\* n >= 2^h, for h up to 32, without leaving the integers at hand
AtLeastPow2(n, h) ==
  IF h <= 30 THEN n >= pow2(h) ELSE (n \div 4) >= pow2(h - 2)

\* an account of size bytes holds the encoding of a tree of height h with
\* 2^h commitments and 2^h nullifier hashes
HoldsFullTree(size, h) ==
  /\ size >= serialized_len(h, 0, 0)
  /\ AtLeastPow2((size - serialized_len(h, 0, 0)) \div (32 + 32), h)

\* C32: for the height h in 1..32 of the tree at hand, get_account_size(h)
\* returns a size that holds the serialized tree with h filled subtrees,
\* 2^h commitments and 2^h nullifier hashes, length prefixes included.
C32_AccountSizeHoldsFullTree ==
  []((merkle_tree.allocated /\ merkle_tree.height \in 1..32)
       => /\ get_account_size(merkle_tree.height, overflow_checks).err = NoErr
          /\ HoldsFullTree(
               get_account_size(merkle_tree.height, overflow_checks).val,
               merkle_tree.height))

\* two encodings of one field element
SameElement(a, b) == from_le_bytes_mod_order(a) = from_le_bytes_mod_order(b)

\* the checks a Withdraw of the inputs w makes of its nullifier hash and of
\* its proof, against the given nullifier set, both pass
PassesSpendChecks(nullifier_hashes, proof, w) ==
  /\ ~nullifier_hash_exists(nullifier_hashes, w.nullifier_hash)
  /\ verify_tornado_proof(proof, VectorOf(w)).val

\* C33: one withdrawal per deposited note.  With a verifier that accepts a
\* proof only for the field elements of its statement, once the proof of a
\* note was accepted and its nullifier hash entered the nullifier set, a
\* withdrawal whose nullifier_hash is another 32-byte encoding of the same
\* field element does not pass the nullifier and proof checks: the two
\* encodings are never both spent, so withdrawals do not outnumber notes.
C33_OneSpendPerFieldElement ==
  [][ (last'.op = "verify_tornado_proof" /\ last'.result = "Ok")
        => \A again \in VerifierInputs :
             (/\ again.nullifier_hash # last'.args.submitted.nullifier_hash
              /\ SameElement(again.nullifier_hash,
                             last'.args.submitted.nullifier_hash))
               => ~PassesSpendChecks(
                     add_nullifier_hash(
                       merkle_tree.nullifier_hashes,
                       last'.args.submitted.nullifier_hash).val,
                     last'.args.proof, again)
    ]_vars

\* the pool account holds nothing when the pool is initialised; from then
\* on it holds one denomination for every leaf of the tree whose nullifier
\* hash is not stored yet
Accounted(inst, tree, balances) ==
  /\ balances[Pool] =
       inst.denomination * (tree.next_index - Len(tree.nullifier_hashes))
  /\ balances[Pool] >= 0

\* the accounts as lines 314-347 of process_withdraw leave them once the
\* proof of a Withdraw with this nullifier hash and fee was accepted
AfterAcceptedProof(nullifier_hash, fee) ==
  process_withdraw_of([err |-> NoErr, val |-> TRUE], instance, merkle_tree,
                      lamports, nullifier_hash, fee)

\* C34: accounting.  In every reachable state the pool's balance is its
\* balance at initialisation plus denomination x (next_index - number of
\* stored nullifier hashes) and is not below the balance at initialisation;
\* and the payout of a Withdraw whose proof is accepted there, with a fee
\* the fee check admits, leaves accounts of which the same is true.
C34_PoolBalanceAccounted ==
  [](/\ Accounted(instance, merkle_tree, lamports)
     /\ \A nullifier_hash \in NullifierHashes, fee \in Fees :
          (/\ instance.is_initialized
           /\ merkle_tree.allocated
           /\ ~fee_exceeds_denomination(fee, instance.denomination)
           /\ AfterAcceptedProof(nullifier_hash, fee).result = "Ok")
            => Accounted(AfterAcceptedProof(nullifier_hash, fee).instance,
                         AfterAcceptedProof(nullifier_hash, fee).merkle_tree,
                         AfterAcceptedProof(nullifier_hash, fee).lamports))

\* a pool that holds the one denomination of the one note deposited in it,
\* from which the payout of that note can be made
C34_PoolHoldsOneDeposit ==
  /\ last.op = "Deposit"
  /\ last.result = "Ok"
  /\ instance.denomination > 0
  /\ merkle_tree.next_index = 1
  /\ merkle_tree.nullifier_hashes = <<>>
  /\ lamports[Pool] = instance.denomination
  /\ AfterAcceptedProof(C_ONE, 0).result = "Ok"
  /\ AfterAcceptedProof(C_ONE, 0).lamports[Pool] = 0

\* C35: in every state reached from an initialised tree, current_root_index
\* is within 0..29 and equals next_index modulo 30, and
\* roots[current_root_index] is the root the most recent successful insert
\* produced; it is all-zero only when no insert has happened.
C35_LatestRootAtCurrentIndex ==
  [](merkle_tree.allocated
       => /\ merkle_tree.current_root_index \in 0..(ROOT_HISTORY_SIZE - 1)
          /\ merkle_tree.current_root_index
               = merkle_tree.next_index % ROOT_HISTORY_SIZE
          /\ produced_roots # <<>>
               => get_last_root(merkle_tree.roots,
                                merkle_tree.current_root_index)
                    = produced_roots[Len(produced_roots)]
          /\ get_last_root(merkle_tree.roots, merkle_tree.current_root_index)
               = ZeroBytes32
               => produced_roots = <<>>)

\* C36: in every reachable state the commitments list has exactly next_index
\* entries and no duplicates; a successful Deposit appends its commitment at
\* the position of the leaf index it was assigned, and no instruction
\* changes the list in any other way; whatever add_commitment accepts for
\* the list as it is leaves a list without duplicates, one entry longer.
C36_CommitmentsListMatchesLeaves ==
  /\ [](/\ Len(merkle_tree.commitments) = merkle_tree.next_index
        /\ NoDuplicates(merkle_tree.commitments)
        /\ \A c \in Commitments :
             (/\ merkle_tree.allocated
              /\ add_commitment(merkle_tree.commitments, c).err = NoErr)
               => /\ add_commitment(merkle_tree.commitments, c).val
                       = Append(merkle_tree.commitments, c)
                  /\ NoDuplicates(
                       add_commitment(merkle_tree.commitments, c).val))
  /\ [][ IsInstruction(last')
           => IF last'.op = "Deposit" /\ last'.result = "Ok"
              THEN /\ merkle_tree'.commitments =
                        Append(merkle_tree.commitments, last'.args.commitment)
                   /\ merkle_tree'.commitments[last'.inserted_index + 1]
                        = last'.args.commitment
              ELSE merkle_tree'.commitments = merkle_tree.commitments
       ]_vars

\* the list after the first Deposit: one entry, the leaf of index 0
C36_FirstLeafListed ==
  /\ last.op = "Deposit"
  /\ last.result = "Ok"
  /\ last.inserted_index = 0
  /\ merkle_tree.commitments = <<last.args.commitment>>
  /\ Len(merkle_tree.commitments) = merkle_tree.next_index

\* the tree with one more nullifier hash and nothing else changed
WithNullifier(tree, nullifier_hash) ==
  [tree EXCEPT !.nullifier_hashes = Append(tree.nullifier_hashes, nullifier_hash)]

\* C37: frame conditions.  A successful Deposit leaves the nullifier set and
\* the balance of every account other than payer and pool unchanged.  A
\* successful Withdraw, and the payout of lines 314-347 once a proof is
\* accepted, leave next_index, current_index, filled_subtrees, roots,
\* current_root_index and commitments unchanged and change the tree only by
\* appending the one nullifier hash.
C37_FrameConditions ==
  /\ [][ (last'.op = "Deposit" /\ last'.result = "Ok")
           => /\ merkle_tree'.nullifier_hashes = merkle_tree.nullifier_hashes
              /\ \A a \in DOMAIN lamports :
                   a \notin {Payer, Pool} => lamports'[a] = lamports[a]
       ]_vars
  /\ [][ (last'.op = "Withdraw" /\ last'.result = "Ok")
           => merkle_tree' =
                WithNullifier(merkle_tree, last'.args.nullifier_hash)
       ]_vars
  /\ [](\A nullifier_hash \in NullifierHashes, fee \in Fees :
          (/\ instance.is_initialized
           /\ merkle_tree.allocated
           /\ ~fee_exceeds_denomination(fee, instance.denomination)
           /\ AfterAcceptedProof(nullifier_hash, fee).result = "Ok")
            => AfterAcceptedProof(nullifier_hash, fee).merkle_tree
                 = WithNullifier(merkle_tree, nullifier_hash))

\* a Deposit moved one denomination from payer to pool and touched nothing
\* else; the payout of the note would add its nullifier hash to the tree
C37_DepositTouchedPayerAndPool ==
  /\ last.op = "Deposit"
  /\ last.result = "Ok"
  /\ instance.denomination > 0
  /\ lamports[Payer] = PayerFunds - instance.denomination
  /\ lamports[RecipientKey] = 0
  /\ lamports[RelayerKey] = 0
  /\ merkle_tree.nullifier_hashes = <<>>
  /\ AfterAcceptedProof(C_ONES, 0).result = "Ok"
  /\ AfterAcceptedProof(C_ONES, 0).merkle_tree.nullifier_hashes = <<C_ONES>>

\* a Withdraw that the checks of process_withdraw before the recipient
\* check let through: the pool is initialised and the tree account is its own
ReachesRecipientCheck(args) ==
  /\ instance.is_initialized
  /\ args.merkle_tree_key = instance.merkle_tree

\* the instruction failed with no effect issued and the accounts as before
RefusedUntouched(rec) ==
  /\ rec.trace = <<>>
  /\ instance' = instance
  /\ merkle_tree' = merkle_tree
  /\ lamports' = lamports

\* C38: payout destinations.  A Withdraw whose recipient key is not the key
\* of the recipient account passed fails with InvalidRecipient, one whose
\* relayer key is not that of the relayer account with InvalidRelayer, both
\* before the nullifier, root and proof checks and with no change of state.
\* A successful Withdraw names both accounts by their keys, and the payout
\* after an accepted proof credits the recipient account denomination - fee
\* and the relayer account fee.
C38_PayoutBoundToInstructionKeys ==
  /\ [][ (last'.op = "Withdraw" /\ ReachesRecipientCheck(last'.args))
           => /\ last'.args.recipient_pubkey # RecipientKey
                   => (last'.result = "InvalidRecipient"
                         /\ RefusedUntouched(last'))
              /\ (/\ last'.args.recipient_pubkey = RecipientKey
                  /\ last'.args.relayer_pubkey # RelayerKey)
                   => (last'.result = "InvalidRelayer"
                         /\ RefusedUntouched(last'))
              /\ last'.result = "Ok"
                   => /\ last'.args.recipient_pubkey = RecipientKey
                      /\ last'.args.relayer_pubkey = RelayerKey
       ]_vars
  /\ [](\A nullifier_hash \in NullifierHashes, fee \in Fees :
          (/\ instance.is_initialized
           /\ merkle_tree.allocated
           /\ ~fee_exceeds_denomination(fee, instance.denomination)
           /\ AfterAcceptedProof(nullifier_hash, fee).result = "Ok")
            => /\ AfterAcceptedProof(nullifier_hash, fee).lamports[RecipientKey]
                    = lamports[RecipientKey] + instance.denomination - fee
               /\ AfterAcceptedProof(nullifier_hash, fee).lamports[RelayerKey]
                    = lamports[RelayerKey] + fee)

\* a Withdraw of a deposited note, with a known root and an unspent
\* nullifier hash, that names another key than the recipient account's
C38_WrongRecipientRefused ==
  /\ last.op = "Withdraw"
  /\ last.result = "InvalidRecipient"
  /\ last.args.recipient_pubkey # RecipientKey
  /\ merkle_tree.next_index = 1
  /\ instance.denomination > 0
  /\ is_known_root(last.args.root, merkle_tree.roots,
                   merkle_tree.current_root_index)
  /\ ~nullifier_hash_exists(merkle_tree.nullifier_hashes,
                            last.args.nullifier_hash)

====
